---- MODULE Spec2Model ----
(***************************************************************************)
(* cargo-merge-assist: three-way semantic merge of Cargo.toml manifests    *)
(* (src/src/merge.rs) and the command pipeline around it (src/src/main.rs).*)
(*                                                                         *)
(* Strings are sequences of byte values, so that String ordering (the      *)
(* BTreeSet iteration order) and path formatting are computed, not assumed.*)
(* An Option<T> is <<>> (None) or <<v>> (Some(v)).                         *)
(***************************************************************************)
EXTENDS Integers, Sequences, FiniteSets, TLC

VARIABLES
    pc,          \* which operation last ran / position inside a command
    base_text,   \* merge_manifest_texts argument
    ours_text,   \* merge_manifest_texts argument
    theirs_text, \* merge_manifest_texts argument
    result,      \* Result<String, MergeConflict> of merge_manifest_texts
    skip_verify, \* merge-all --skip-verify
    offline,     \* merge-all --offline
    out_file,    \* the file at --out
    trace,       \* the pipeline steps attempted so far, with their outcome
    attrs,       \* <repo>/.gitattributes: None (no file) or Some(content)
    git_cfg,     \* the repository-local git configuration of the drivers
    runs,        \* install-git-driver runs started
    attrs_first, \* .gitattributes before the first run
    installed    \* Some(.gitattributes at the end of the first successful run)

merge_vars == <<base_text, ours_text, theirs_text, result>>
pipeline_vars == <<skip_verify, offline, out_file, trace>>
install_vars == <<attrs, git_cfg, runs, attrs_first, installed>>
vars == <<pc, merge_vars, pipeline_vars, install_vars>>

----------------------------------------------------------------------------
(* Option, Result *)

None == <<>>
Some(v) == <<v>>
Ok(v) == [ok |-> TRUE, value |-> v]
Err(e) == [ok |-> FALSE, conflict |-> e]

----------------------------------------------------------------------------
(* Strings: byte sequences, with Rust's lexicographic Ord on String *)

Dot == 46
EmptyStr == <<>>

str_lt(s, t) ==
    \E i \in 1..(Len(t)) :
        /\ \A j \in 1..(i - 1) : j <= Len(s) /\ s[j] = t[j]
        /\ \/ i > Len(s)
           \/ i <= Len(s) /\ s[i] < t[i]

RECURSIVE btree_iter_descending(_)
\* mutant of btree_iter: the keys in descending order
btree_iter_descending(S) ==
    IF S = {} THEN <<>>
    ELSE LET greatest == CHOOSE k \in S : \A o \in S \ {k} : str_lt(o, k)
         IN <<greatest>> \o btree_iter_descending(S \ {greatest})

RECURSIVE btree_iter(_)
\* BTreeSet<String>::into_iter(): ascending order
btree_iter(S) ==
    IF S = {} THEN <<>>
    ELSE LET least == CHOOSE k \in S : \A o \in S \ {k} : str_lt(k, o)
         IN <<least>> \o btree_iter(S \ {least})

\* fn join_path(base: &str, key: &str) -> String
join_path(base, key) ==
    IF base = EmptyStr THEN key ELSE base \o <<Dot>> \o key

----------------------------------------------------------------------------
(* toml::Value and its derived PartialEq *)

Integer(n) == [kind |-> "Integer", v |-> n]
FloatNaN == [kind |-> "Float", nan |-> TRUE, v |-> 0]
Float(x) == [kind |-> "Float", nan |-> FALSE, v |-> x]
Array(elems) == [kind |-> "Array", elems |-> elems]
Table(entries) == [kind |-> "Table", entries |-> entries]
EmptyMap == <<>>

is_table(opt) == opt # None /\ opt[1].kind = "Table"

\* Map::get
map_get(m, key) == IF key \in DOMAIN m THEN Some(m[key]) ELSE None

\* Map::insert
map_insert(m, key, value) ==
    [k \in (DOMAIN m) \cup {key} |-> IF k = key THEN value ELSE m[k]]

RECURSIVE value_eq(_, _)
\* #[derive(PartialEq)] on toml::Value: variant-wise, f64 compared by
\* IEEE-754 (NaN is not equal to itself), arrays and maps element-wise.
value_eq(a, b) ==
    IF a.kind # b.kind THEN FALSE
    ELSE CASE a.kind = "Integer" -> a.v = b.v
           [] a.kind = "Float" -> ~a.nan /\ ~b.nan /\ a.v = b.v
           [] a.kind = "Array" ->
                /\ Len(a.elems) = Len(b.elems)
                /\ \A i \in 1..Len(a.elems) : value_eq(a.elems[i], b.elems[i])
           [] a.kind = "Table" ->
                /\ DOMAIN a.entries = DOMAIN b.entries
                /\ \A k \in DOMAIN a.entries : value_eq(a.entries[k], b.entries[k])

\* Option<&Value> == Option<&Value>
option_eq(a, b) ==
    \/ a = None /\ b = None
    \/ a # None /\ b # None /\ value_eq(a[1], b[1])

----------------------------------------------------------------------------
(* merge_value *)

MergeConflict(path, base, ours, theirs) ==
    [path |-> path, base |-> base, ours |-> ours, theirs |-> theirs]

\* mutant of table_keys: theirs' keys are not collected
table_keys_without_theirs(base, ours_table, theirs_table) ==
    (DOMAIN ours_table)
        \cup (IF is_table(base) THEN DOMAIN base[1].entries ELSE {})

\* keys: ours' keys, theirs' keys, and base's keys when base is a table
table_keys(base, ours_table, theirs_table) ==
    (DOMAIN ours_table) \cup (DOMAIN theirs_table)
        \cup (IF is_table(base) THEN DOMAIN base[1].entries ELSE {})

\* base.and_then(|v| v.as_table()).and_then(|table| table.get(&key))
base_child(base, key) ==
    IF is_table(base) THEN map_get(base[1].entries, key) ELSE None

\* mutant of table_result: an empty table collapses to an absent value
table_result_collapsing(out) ==
    IF out = EmptyMap THEN Ok(None) ELSE Ok(Some(Table(out)))

\* Ok(Some(Value::Table(out)))
table_result(out) == Ok(Some(Table(out)))

RECURSIVE merge_value(_, _, _, _)
RECURSIVE merge_keys(_, _, _, _, _, _)

\* the body of `for key in keys { ... }`, with `?` returning the first Err
merge_keys(path, keys, base, ours_table, theirs_table, out) ==
    IF keys = <<>> THEN table_result(out)
    ELSE LET key == Head(keys)
             key_path == join_path(path, key)
             r == merge_value(key_path, base_child(base, key),
                              map_get(ours_table, key),
                              map_get(theirs_table, key))
         IN IF ~r.ok THEN r
            ELSE merge_keys(path, Tail(keys), base, ours_table, theirs_table,
                            IF r.value # None
                            THEN map_insert(out, key, r.value[1])
                            ELSE out)

merge_value(path, base, ours, theirs) ==
    IF option_eq(ours, theirs) THEN Ok(ours)
    ELSE IF option_eq(ours, base) THEN Ok(theirs)
    ELSE IF option_eq(theirs, base) THEN Ok(ours)
    ELSE IF is_table(ours) /\ is_table(theirs)
         THEN merge_keys(path,
                         btree_iter(table_keys(base, ours[1].entries,
                                               theirs[1].entries)),
                         base, ours[1].entries, theirs[1].entries, EmptyMap)
         ELSE Err(MergeConflict(path, base, ours, theirs))

----------------------------------------------------------------------------
(* merge_manifest_texts *)

\* "<parse:base>", "<parse:ours>", "<parse:theirs>", "<serialize>"
ParseBase == <<60, 112, 97, 114, 115, 101, 58, 98, 97, 115, 101, 62>>
ParseOurs == <<60, 112, 97, 114, 115, 101, 58, 111, 117, 114, 115, 62>>
ParseTheirs == <<60, 112, 97, 114, 115, 101, 58, 116, 104, 101, 105, 114, 115, 62>>
SerializeFail == <<60, 115, 101, 114, 105, 97, 108, 105, 122, 101, 62>>

\* A manifest text is either not valid TOML or a text of some document;
\* texts of the same document are not told apart.
InvalidText == [valid |-> FALSE]
TextOf(doc) == [valid |-> TRUE, doc |-> doc]

\* toml::from_str::<Value>: Err on a syntax error, else the root table
from_str(text) == IF text.valid THEN Ok(text.doc) ELSE Err("parse error")

\* toml::to_string_pretty: the canonical text of the document; the text of
\* an empty table is the empty string, any other ends with a newline
to_string_pretty(doc) ==
    Ok([pretty |-> doc, ends_with_newline |-> doc.entries # EmptyMap])

\* if !output.ends_with('\n') { output.push('\n') }
pad_newline(output) == [output EXCEPT !.ends_with_newline = TRUE]

\* MergeConflict { path, base: None, ours: None, theirs: None }
Sentinel(path) == MergeConflict(path, None, None, None)

\* .expect("root merge always returns a document") on None
Panic == [ok |-> FALSE, panicked |-> TRUE]

\* mutant of merge_manifest_texts: theirs' parse error is reported before ours'
merge_manifest_texts_theirs_first(b_text, o_text, t_text) ==
    LET base == from_str(b_text)
        ours == from_str(o_text)
        theirs == from_str(t_text)
    IN IF ~base.ok THEN Err(Sentinel(ParseBase))
       ELSE IF ~theirs.ok THEN Err(Sentinel(ParseTheirs))
       ELSE IF ~ours.ok THEN Err(Sentinel(ParseOurs))
       ELSE LET merged == merge_value(EmptyStr, Some(base.value),
                                      Some(ours.value), Some(theirs.value))
            IN IF ~merged.ok THEN merged
               ELSE IF merged.value = None THEN Panic
               ELSE LET output == to_string_pretty(merged.value[1])
                    IN IF ~output.ok THEN Err(Sentinel(SerializeFail))
                       ELSE Ok(pad_newline(output.value))

merge_manifest_texts(b_text, o_text, t_text) ==
    LET base == from_str(b_text)
        ours == from_str(o_text)
        theirs == from_str(t_text)
    IN IF ~base.ok THEN Err(Sentinel(ParseBase))
       ELSE IF ~ours.ok THEN Err(Sentinel(ParseOurs))
       ELSE IF ~theirs.ok THEN Err(Sentinel(ParseTheirs))
       ELSE LET merged == merge_value(EmptyStr, Some(base.value),
                                      Some(ours.value), Some(theirs.value))
            IN IF ~merged.ok THEN merged
               ELSE IF merged.value = None THEN Panic
               ELSE LET output == to_string_pretty(merged.value[1])
                    IN IF ~output.ok THEN Err(Sentinel(SerializeFail))
                       ELSE Ok(pad_newline(output.value))

----------------------------------------------------------------------------
(* Inputs of the merge: manifests over three keys ("", "a", "b").          *)

MaxScalar == 3
MaxArrayLen == 1

KeyA == <<97>>
KeyB == <<98>>
Keys == {EmptyStr, KeyA, KeyB}

\* every table with keys among `keys` and values among `vals`
TablesOver(keys, vals) == UNION {[K -> vals] : K \in SUBSET keys}

ArrayElems == {Integer(1), FloatNaN}
Arrays ==
    {Array(e) : e \in UNION {[1..n -> ArrayElems] : n \in 0..MaxArrayLen}}
Leaves == {Integer(n) : n \in 1..MaxScalar} \cup {FloatNaN} \cup Arrays

\* one key, every kind of leaf
DocsLeafy == {Table(m) : m \in TablesOver({KeyA}, Leaves)}
\* three keys at the root
DocsWide == {Table(m) : m \in TablesOver(Keys, {Integer(1), FloatNaN})}
\* two keys at the root, a nested table below either
DocsDeep ==
    LET ints == {Integer(1), Integer(2)}
        inner == {Table(m) : m \in TablesOver({KeyA}, ints)}
    IN {Table(m) : m \in TablesOver({EmptyStr, KeyB}, ints \cup inner)}

Docs == DocsLeafy \cup DocsWide \cup DocsDeep
Texts == {InvalidText} \cup {TextOf(d) : d \in Docs}

----------------------------------------------------------------------------
(* The merge as an operation: one call of merge_manifest_texts *)

NoText == InvalidText
NoResult == [ok |-> FALSE, none |-> TRUE]

Untouched == [state |-> "untouched"]

\* nothing has been merged
NoMerge ==
    /\ base_text = NoText
    /\ ours_text = NoText
    /\ theirs_text = NoText
    /\ result = NoResult
    /\ skip_verify = FALSE
    /\ offline = FALSE
    /\ out_file = Untouched
    /\ trace = <<>>

\* no driver installation is looked at
NoInstall ==
    /\ attrs = None
    /\ git_cfg = <<>>
    /\ runs = 0
    /\ attrs_first = None
    /\ installed = None

InitMerge ==
    /\ pc = "idle"
    /\ NoMerge
    /\ NoInstall

MergeManifestTexts ==
    /\ pc = "idle"
    /\ \E b \in Texts, o \in Texts, t \in Texts :
        /\ base_text' = b
        /\ ours_text' = o
        /\ theirs_text' = t
        /\ result' = merge_manifest_texts(b, o, t)
    /\ pc' = "merged"
    /\ UNCHANGED <<pipeline_vars, install_vars>>

NextMerge == MergeManifestTexts

Spec == InitMerge /\ [][NextMerge]_vars

----------------------------------------------------------------------------
(* merge-all: merge_manifest_cmd, then resolve_lock_cmd.  Every `?` is a   *)
(* step that either goes on or ends the command with an error.             *)

\* mutant of run_cargo: the exit status is not looked at
run_cargo_ignoring_status(spawned, success) ==
    IF ~spawned THEN Err("failed to execute cargo") ELSE Ok("unit")

\* fn run_cargo: Err when cargo cannot be executed or exits non-zero
run_cargo(spawned, success) ==
    IF ~spawned THEN Err("failed to execute cargo")
    ELSE IF ~success THEN Err("cargo command failed")
    ELSE Ok("unit")

\* the cargo command line: args, plus --offline when asked for
cargo_args(args, is_offline) ==
    IF is_offline THEN Append(args, "--offline") ELSE args

\* verify: !args.skip_verify
resolve_verify(skip) == ~skip

Written(text) == [state |-> "written", text |-> text]
Truncated == [state |-> "truncated"]
ReadError == [valid |-> FALSE, unreadable |-> TRUE]

PipelineTexts == {InvalidText} \cup {TextOf(d) : d \in DocsLeafy}

Step(name, ok) == [step |-> name, ok |-> ok]

\* merge_all_cmd is entered with its arguments; merge_manifest_cmd reads the
\* three files (read_utf8), the first unreadable one ending the command
MergeAllReadInputs ==
    /\ pc = "idle"
    /\ \E sv \in BOOLEAN, off \in BOOLEAN :
        /\ skip_verify' = sv
        /\ offline' = off
    /\ \E b, o, t \in PipelineTexts \cup {ReadError} :
        /\ base_text' = b
        /\ ours_text' = o
        /\ theirs_text' = t
        /\ pc' = IF ReadError \in {b, o, t} THEN "failed" ELSE "read"
    /\ UNCHANGED <<result, out_file, trace, install_vars>>

\* merge_manifest_texts(...).map_err(...)?
MergeAllMerge ==
    /\ pc = "read"
    /\ result' = merge_manifest_texts(base_text, ours_text, theirs_text)
    /\ trace' = Append(trace, Step("merge", result'.ok))
    /\ pc' = IF result'.ok THEN "merged_ok" ELSE "failed"
    /\ UNCHANGED <<base_text, ours_text, theirs_text, skip_verify, offline,
                   out_file, install_vars>>

\* fs::write(&args.out, merged)?: on failure the file is as it was (it could
\* not be opened) or truncated (it was opened and the write failed)
MergeAllWrite ==
    /\ pc = "merged_ok"
    /\ \E outcome \in {"ok", "not opened", "write failed"} :
        /\ out_file' = CASE outcome = "ok" -> Written(result.value)
                         [] outcome = "not opened" -> out_file
                         [] outcome = "write failed" -> Truncated
        /\ trace' = Append(trace, Step("write", outcome = "ok"))
        /\ pc' = IF outcome = "ok" THEN "written" ELSE "failed"
    /\ UNCHANGED <<merge_vars, skip_verify, offline, install_vars>>

\* resolve_lock_cmd: ensure_manifest_exists(&args.repo)?
MergeAllEnsureManifest ==
    /\ pc = "written"
    /\ \E exists \in BOOLEAN : pc' = IF exists THEN "ensured" ELSE "failed"
    /\ UNCHANGED <<merge_vars, pipeline_vars, install_vars>>

\* run_cargo(&args.repo, &["generate-lockfile"], args.offline)?
MergeAllGenerateLockfile ==
    /\ pc = "ensured"
    /\ \E spawned \in BOOLEAN, success \in BOOLEAN :
        /\ trace' = Append(trace,
                [step |-> "lock", ok |-> spawned /\ success,
                 args |-> cargo_args(<<"generate-lockfile">>, offline)])
        /\ pc' = IF run_cargo(spawned, success).ok THEN "locked" ELSE "failed"
    /\ UNCHANGED <<merge_vars, skip_verify, offline, out_file, install_vars>>

\* if args.verify { run_cargo(&args.repo, &["check", "-q"], args.offline)? }
MergeAllCheck ==
    /\ pc = "locked"
    /\ resolve_verify(skip_verify)
    /\ \E spawned \in BOOLEAN, success \in BOOLEAN :
        /\ trace' = Append(trace,
                [step |-> "check", ok |-> spawned /\ success,
                 args |-> cargo_args(<<"check", "-q">>, offline)])
        /\ pc' = IF run_cargo(spawned, success).ok THEN "done" ELSE "failed"
    /\ UNCHANGED <<merge_vars, skip_verify, offline, out_file, install_vars>>

\* verification skipped: Ok(())
MergeAllSkipCheck ==
    /\ pc = "locked"
    /\ ~resolve_verify(skip_verify)
    /\ pc' = "done"
    /\ UNCHANGED <<merge_vars, pipeline_vars, install_vars>>

NextPipeline ==
    \/ MergeAllReadInputs
    \/ MergeAllMerge
    \/ MergeAllWrite
    \/ MergeAllEnsureManifest
    \/ MergeAllGenerateLockfile
    \/ MergeAllCheck
    \/ MergeAllSkipCheck

SpecPipeline == InitMerge /\ [][NextPipeline]_vars

----------------------------------------------------------------------------
(* install-git-driver.  The attributes file is a sequence of pieces: a     *)
(* newline, a blank (any other white space), the text of one of the two    *)
(* driver-assignment lines, or other text.                                 *)

MaxFileLen == 3
MaxRuns == 2

NL == "\n"
Blank == " "
ManifestLine == "Cargo.toml merge=cargo-merge-assist-manifest"
LockLine == "Cargo.lock merge=cargo-merge-assist-lock"
OtherText == "#"
Pieces == {NL, Blank, ManifestLine, LockLine, OtherText}

RECURSIVE lines(_)
\* str::lines(): the pieces between newlines; a final newline ends the last
\* line and starts none
lines(content) ==
    IF content = <<>> THEN <<>>
    ELSE IF \E i \in 1..Len(content) : content[i] = NL
         THEN LET i == CHOOSE i \in 1..Len(content) :
                        content[i] = NL /\ \A j \in 1..(i - 1) : content[j] # NL
              IN <<SubSeq(content, 1, i - 1)>>
                    \o lines(SubSeq(content, i + 1, Len(content)))
         ELSE <<content>>

RECURSIVE trim(_)
\* str::trim(): without leading and trailing white space
trim(l) ==
    IF l = <<>> THEN l
    ELSE IF Head(l) = Blank THEN trim(Tail(l))
    ELSE IF l[Len(l)] = Blank THEN trim(SubSeq(l, 1, Len(l) - 1))
    ELSE l

\* mutant of line_present: the lines are compared without trimming
line_present_untrimmed(existing, line) ==
    \E i \in 1..Len(lines(existing)) : lines(existing)[i] = <<line>>

\* existing.lines().any(|l| l.trim() == line)
line_present(existing, line) ==
    \E i \in 1..Len(lines(existing)) : trim(lines(existing)[i]) = <<line>>

\* fn append_unique_line, between reading and writing the file:
\* None when nothing is to be written, else Some(the new content)
append_unique_line(existing, line) ==
    IF line_present(existing, line) THEN None
    ELSE LET ended == IF existing # <<>> /\ existing[Len(existing)] # NL
                      THEN Append(existing, NL)
                      ELSE existing
         IN Some(ended \o <<line, NL>>)

ConfigKeys ==
    <<"merge.cargo-merge-assist-manifest.name",
      "merge.cargo-merge-assist-manifest.driver",
      "merge.cargo-merge-assist-lock.name",
      "merge.cargo-merge-assist-lock.driver">>
ConfigValues ==
    <<"cargo-merge-assist semantic merge for Cargo.toml",
      "cargo-merge-assist merge-manifest --base %O --ours %A --theirs %B --out %A",
      "cargo-merge-assist lockfile regeneration driver",
      "cargo-merge-assist resolve-lock --repo .">>
DriverConfig ==
    [k \in {ConfigKeys[i] : i \in 1..4} |->
        ConfigValues[CHOOSE i \in 1..4 : ConfigKeys[i] = k]]

Contents == UNION {[1..n -> Pieces] : n \in 0..MaxFileLen}

InitInstall ==
    /\ pc = "idle"
    /\ NoMerge
    /\ attrs \in {None} \cup {Some(c) : c \in Contents}
    /\ git_cfg \in {[k \in DOMAIN DriverConfig |-> v] : v \in {"unset", "stale"}}
    /\ runs = 0
    /\ attrs_first = attrs
    /\ installed = None

\* install_git_driver_cmd is entered: ensure_manifest_exists(&args.repo)?
InstallEnsureManifest ==
    /\ pc = "idle"
    /\ runs < MaxRuns
    /\ runs' = runs + 1
    /\ \E exists \in BOOLEAN :
        pc' = IF exists THEN "attr_manifest" ELSE "install_failed"
    /\ UNCHANGED <<merge_vars, pipeline_vars, attrs, git_cfg, attrs_first,
                   installed>>

\* append_unique_line(path, line)?: a missing file reads as empty; a failed
\* read ends the command; a failed write leaves the file as it was (it could
\* not be opened) or truncated
AppendUniqueLine(line, next_pc) ==
    \E outcome \in {"ok", "read failed", "not opened", "write failed"} :
        LET existing == IF attrs = None THEN <<>> ELSE attrs[1]
            new == append_unique_line(existing, line)
        IN IF outcome = "read failed"
           THEN /\ attrs # None
                /\ pc' = "install_failed"
                /\ UNCHANGED attrs
           ELSE IF new = None
           THEN /\ outcome = "ok"
                /\ pc' = next_pc
                /\ UNCHANGED attrs
           ELSE /\ attrs' = CASE outcome = "ok" -> new
                              [] outcome = "not opened" -> attrs
                              [] outcome = "write failed" -> Some(<<>>)
                /\ pc' = IF outcome = "ok" THEN next_pc ELSE "install_failed"

InstallAppendManifestLine ==
    /\ pc = "attr_manifest"
    /\ AppendUniqueLine(ManifestLine, "attr_lock")
    /\ UNCHANGED <<merge_vars, pipeline_vars, git_cfg, runs, attrs_first,
                   installed>>

InstallAppendLockLine ==
    /\ pc = "attr_lock"
    /\ AppendUniqueLine(LockLine, "config_1")
    /\ UNCHANGED <<merge_vars, pipeline_vars, git_cfg, runs, attrs_first,
                   installed>>

ConfigPc(i) ==
    CASE i = 1 -> "config_1" [] i = 2 -> "config_2" [] i = 3 -> "config_3"
      [] i = 4 -> "config_4" [] OTHER -> "installed"

\* git_config(&args.repo, key, value)?: `git config --local key value`
InstallGitConfig ==
    \E i \in 1..4 :
        /\ pc = ConfigPc(i)
        /\ \E success \in BOOLEAN :
            IF success
            THEN /\ git_cfg' = [git_cfg EXCEPT ![ConfigKeys[i]] = ConfigValues[i]]
                 /\ pc' = ConfigPc(i + 1)
                 /\ installed' = IF i = 4 /\ installed = None
                                 THEN Some(attrs) ELSE installed
            ELSE /\ pc' = "install_failed"
                 /\ UNCHANGED <<git_cfg, installed>>
        /\ UNCHANGED <<merge_vars, pipeline_vars, attrs, runs, attrs_first>>

\* the command has ended; it can be run again
InstallReturn ==
    /\ pc \in {"installed", "install_failed"}
    /\ pc' = "idle"
    /\ UNCHANGED <<merge_vars, pipeline_vars, install_vars>>

NextInstall ==
    \/ InstallEnsureManifest
    \/ InstallAppendManifestLine
    \/ InstallAppendLockLine
    \/ InstallGitConfig
    \/ InstallReturn

SpecInstall == InitInstall /\ [][NextInstall]_vars

----------------------------------------------------------------------------
(* Vocabulary of the merge properties.  A position is the sequence of keys *)
(* leading to it from the root; the three values at a position are read    *)
(* from the three input documents, not from the merge.                     *)

Merged == pc = "merged"
AllParsed == Merged /\ base_text.valid /\ ours_text.valid /\ theirs_text.valid
IsConflict(r) == ~r.ok /\ "conflict" \in DOMAIN r
Succeeded == result.ok
SemanticConflict == AllParsed /\ IsConflict(result)

RECURSIVE At(_, _)
At(opt, pos) ==
    IF pos = <<>> THEN opt
    ELSE IF is_table(opt) /\ Head(pos) \in DOMAIN opt[1].entries
         THEN At(Some(opt[1].entries[Head(pos)]), Tail(pos))
         ELSE None

BaseAt(p) == At(Some(base_text.doc), p)
OursAt(p) == At(Some(ours_text.doc), p)
TheirsAt(p) == At(Some(theirs_text.doc), p)

Parent(p) == SubSeq(p, 1, Len(p) - 1)

\* keys joined by dots
RECURSIVE DottedPath(_)
DottedPath(p) ==
    IF p = <<>> THEN EmptyStr
    ELSE IF Len(p) = 1 THEN p[1]
    ELSE DottedPath(Parent(p)) \o <<Dot>> \o p[Len(p)]

\* the path the recursion hands down to a position
RECURSIVE PathOf(_)
PathOf(p) ==
    IF p = <<>> THEN EmptyStr ELSE join_path(PathOf(Parent(p)), p[Len(p)])

\* the decision ladder at a position
Settled(p) ==
    \/ option_eq(OursAt(p), TheirsAt(p))
    \/ option_eq(OursAt(p), BaseAt(p))
    \/ option_eq(TheirsAt(p), BaseAt(p))
BothTables(p) == is_table(OursAt(p)) /\ is_table(TheirsAt(p))
\* rule 3 applies at p: the merge goes on below p
Descends(p) == ~Settled(p) /\ BothTables(p)

\* depth-first order, keys ascending
PosBefore(p, q) ==
    \E i \in 1..Len(q) :
        /\ \A j \in 1..(i - 1) : j <= Len(p) /\ p[j] = q[j]
        /\ \/ i > Len(p)
           \/ i <= Len(p) /\ str_lt(p[i], q[i])

\* the positions at or below p at which rule 4 fires: those no rule of the
\* ladder settles, where the sides are not both tables, and above which
\* (from p on) rule 3 applies
RECURSIVE FiringUnder(_)
FiringUnder(p) ==
    IF Settled(p) THEN {}
    ELSE IF BothTables(p)
         THEN UNION {FiringUnder(Append(p, k)) : k \in Keys}
         ELSE {p}
Firing == FiringUnder(<<>>)
\* the first of a set of positions in that order
IsFirst(p, S) == p \in S /\ \A q \in S \ {p} : PosBefore(p, q)

ConflictAt(p, path) == Err(MergeConflict(path, BaseAt(p), OursAt(p), TheirsAt(p)))

SwappedResult == merge_manifest_texts(base_text, theirs_text, ours_text)

SidesSwapped(r, sw) ==
    /\ r.ok => sw = r
    /\ IsConflict(r) =>
        /\ IsConflict(sw)
        /\ sw.conflict.path = r.conflict.path
        /\ sw.conflict.base = r.conflict.base
        /\ sw.conflict.ours = r.conflict.theirs
        /\ sw.conflict.theirs = r.conflict.ours

----------------------------------------------------------------------------
(* C1 *)

\* C1 as stated: for every triple of input texts, the merge with ours and
\* theirs exchanged gives the same merged text, or a conflict with the same
\* path and the ours/theirs values exchanged.
C1_AnyInputs == Merged => SidesSwapped(result, SwappedResult)

\* C1, amended: for every triple of parseable inputs, the merge with ours and
\* theirs exchanged gives the same merged text, or a conflict with the same
\* path, the same base value and the ours/theirs values exchanged.
C1_Commutative == AllParsed => SidesSwapped(result, SwappedResult)

C1_Witness ==
    /\ SemanticConflict
    /\ result.conflict.ours # result.conflict.theirs
    /\ Len(result.conflict.path) > 1
    /\ IsConflict(SwappedResult)

----------------------------------------------------------------------------
(* C2 *)

\* C2: if ours equals base the merge succeeds with theirs' document, if
\* theirs equals base it succeeds with ours' document, and no conflict is
\* reported at a position where one side equals base.
C2_UnchangedSide ==
    AllParsed =>
        /\ ours_text.doc = base_text.doc =>
                Succeeded /\ result.value.pretty = theirs_text.doc
        /\ theirs_text.doc = base_text.doc =>
                Succeeded /\ result.value.pretty = ours_text.doc
        /\ IsConflict(result) =>
                /\ result.conflict.ours # result.conflict.base
                /\ result.conflict.theirs # result.conflict.base

----------------------------------------------------------------------------
(* C3 *)

\* C3: if ours and theirs are equal the merge succeeds with ours' document
\* whatever base is, and no conflict is reported at a position where ours
\* and theirs are equal (in particular merge(x, x, x) = x).
C3_Agreement ==
    AllParsed =>
        /\ ours_text.doc = theirs_text.doc =>
                Succeeded /\ result.value.pretty = ours_text.doc
        /\ IsConflict(result) => result.conflict.ours # result.conflict.theirs

----------------------------------------------------------------------------
(* C4 *)

\* the three values at p differ pairwise and the two sides are not both tables
Irreconcilable(p) ==
    /\ OursAt(p) # TheirsAt(p)
    /\ OursAt(p) # BaseAt(p)
    /\ TheirsAt(p) # BaseAt(p)
    /\ ~BothTables(p)

\* C4: the merge at a position of irreconcilable disagreement returns the
\* conflict record of that position: its dotted path and the three values
\* there (seen in the result when no conflict is met before it).
C4_ConflictRecord ==
    AllParsed =>
        LET firing == Firing
        IN \A p \in firing :
                Irreconcilable(p) /\ IsFirst(p, firing)
                    => result = ConflictAt(p, DottedPath(p))

----------------------------------------------------------------------------
(* C5 *)

\* C5 as stated: the reported path is that of a shallowest position at which
\* rule 4 fires.
C5_Shallowest ==
    SemanticConflict =>
        LET firing == Firing
        IN \E p \in firing :
                /\ PathOf(p) = result.conflict.path
                /\ \A q \in firing : Len(p) <= Len(q)

\* C5, amended: the reported conflict is that of the first position, in
\* depth-first order with keys ascending, at which rule 4 fires; no position
\* where rule 4 fires comes before it in that order (a shallower one may
\* come after it).
C5_FirstInOrder ==
    SemanticConflict =>
        LET firing == Firing
        IN \E p \in firing :
                IsFirst(p, firing) /\ result = ConflictAt(p, PathOf(p))

C5_Witness ==
    /\ SemanticConflict
    /\ LET firing == Firing
       IN \E p, q \in firing :
            /\ IsFirst(p, firing)
            /\ result = ConflictAt(p, PathOf(p))
            /\ Len(q) < Len(p)

----------------------------------------------------------------------------
(* C6 *)

MapUnion(f, g) ==
    [k \in (DOMAIN f) \cup (DOMAIN g) |-> IF k \in DOMAIN f THEN f[k] ELSE g[k]]
Extends(f, g) == DOMAIN g \subseteq DOMAIN f /\ \A k \in DOMAIN g : f[k] = g[k]

\* C6: where both sides are tables differing from each other and from base,
\* the merged table has a key exactly when the merge of the three children
\* there is present; when each side only added keys that the other side and
\* base lack, the merge succeeds with base's entries and both sides' additions.
C6_KeyWise ==
    LET b == base_text.doc.entries
        o == ours_text.doc.entries
        t == theirs_text.doc.entries
    IN (AllParsed /\ o # t /\ o # b /\ t # b) =>
        /\ Succeeded =>
            \A k \in Keys :
                LET child == merge_value(k, map_get(b, k), map_get(o, k),
                                         map_get(t, k))
                IN k \in DOMAIN result.value.pretty.entries
                        <=> (child.ok /\ child.value # None)
        /\ (Extends(o, b) /\ Extends(t, b)
                /\ (DOMAIN o) \cap (DOMAIN t) = DOMAIN b)
            => Succeeded /\ result.value.pretty.entries = MapUnion(o, t)

----------------------------------------------------------------------------
(* C7 *)

FirstInvalid ==
    IF ~base_text.valid THEN ParseBase
    ELSE IF ~ours_text.valid THEN ParseOurs
    ELSE ParseTheirs

\* C7: if a text fails to parse the merge returns the conflict whose path is
\* the sentinel of the first failing side in the order base, ours, theirs and
\* whose three values are absent, and returns no merged text.
C7_ParseFailure ==
    (Merged /\ ~AllParsed) =>
        /\ ~Succeeded
        /\ result = Err(MergeConflict(FirstInvalid, None, None, None))

C7_Witness ==
    /\ Merged
    /\ base_text.valid /\ ~ours_text.valid /\ ~theirs_text.valid
    /\ result.conflict.path = ParseOurs

----------------------------------------------------------------------------
(* C10 *)

\* C10: for three parsed root documents the merge at the root returns a
\* conflict or a present table, so the `root merge always returns a document`
\* expectation never fails.
C10_RootIsTable ==
    AllParsed =>
        /\ result # Panic
        /\ Succeeded => result.value.pretty.kind = "Table"

C10_Witness ==
    /\ AllParsed /\ Succeeded
    /\ Descends(<<>>)
    /\ result.value.pretty = Table(EmptyMap)

----------------------------------------------------------------------------
(* C8 *)

StepOrder == <<"merge", "write", "lock", "check">>
Attempted(name) == \E i \in 1..Len(trace) : trace[i].step = name
Completed(name) == \E i \in 1..Len(trace) : trace[i].step = name /\ trace[i].ok

\* C8: the steps of merge-all occur only in the order merge, write, lock,
\* check, each after the previous one succeeded; the output file is touched
\* only when the merge returned a text, the build-check runs only when not
\* skipped, and a later failure leaves the written manifest in place.
C8_PipelineOrder ==
    /\ Len(trace) <= Len(StepOrder)
    /\ \A i \in 1..Len(trace) :
        /\ trace[i].step = StepOrder[i]
        /\ i > 1 => trace[i - 1].ok
    /\ out_file # Untouched => Attempted("write") /\ Completed("merge") /\ result.ok
    /\ ~Completed("merge") => ~Attempted("write")
    /\ Attempted("lock") => out_file = Written(result.value)
    /\ Attempted("check") => Completed("lock") /\ ~skip_verify
    /\ Completed("write") => out_file = Written(result.value)
    /\ pc = "done" =>
        /\ Completed("lock")
        /\ Attempted("check") <=> ~skip_verify
        /\ Attempted("check") => Completed("check")

C8_Witness ==
    /\ pc = "failed"
    /\ Attempted("check") /\ ~Completed("check")
    /\ out_file = Written(result.value)
    /\ result.value.pretty # Table(EmptyMap)

----------------------------------------------------------------------------
(* C9 *)

\* the number of lines of the file that equal `line` after trimming
CountLines(file, line) ==
    LET ls == lines(IF file = None THEN <<>> ELSE file[1])
    IN Cardinality({i \in 1..Len(ls) : trim(ls[i]) = <<line>>})

AtMostOnceMore(line) ==
    CountLines(attrs, line) <=
        (IF CountLines(attrs_first, line) = 0 THEN 1
         ELSE CountLines(attrs_first, line))

\* C9: once an install run has succeeded, every further run leaves the
\* attributes file as that run left it and the four configuration entries at
\* their values; and whatever the file held at first, a driver-assignment
\* line it holds is never appended again.
C9_InstallIdempotent ==
    /\ installed # None =>
        /\ attrs = installed[1]
        /\ git_cfg = DriverConfig
    /\ AtMostOnceMore(ManifestLine)
    /\ AtMostOnceMore(LockLine)

C9_Witness ==
    /\ pc = "installed"
    /\ runs = MaxRuns
    /\ installed # None
    /\ attrs_first # None
    /\ CountLines(attrs_first, ManifestLine) = 1
    /\ ~line_present_untrimmed(attrs_first[1], ManifestLine)
    /\ CountLines(attrs_first, LockLine) = 0
    /\ attrs = Some(attrs_first[1] \o <<NL, LockLine, NL>>)

====
